---- MODULE Spec2Model ----
(***************************************************************************)
(* r_monitor: the Named Series Store (src/src/storage.py, the eSaver       *)
(* upsert of src/main.py) and the store step of a collection run.          *)
(*                                                                         *)
(* A persisted table is the logical content of one CSV file: the set of    *)
(* its columns and the sequence of its rows.  A cell is a small integer;   *)
(* Null stands for a missing value (None, NaN, NaT, the empty string).     *)
(* Dates and promotion months are day / month numbers, so that their       *)
(* numeric order is the order of the ISO strings the program stores.       *)
(* File reads and writes can fail: every load and every save takes the     *)
(* outcome of the I/O as an input.                                         *)
(***************************************************************************)
EXTENDS Integers, Sequences, FiniteSets, TLC

\* ---- bounds ------------------------------------------------------------
MaxDate == 2        \* dates / promotion months are 1..MaxDate
MaxVal == 2         \* non-null cell values are 1..MaxVal
MaxRows == 2        \* rows persisted for one series
MaxBatch == 2       \* rows of one append_rows call
MaxFail == 2        \* consecutive failures on record when a run starts
MaxDay == 3         \* days of the tables the derived metrics are computed on
MaxObs == 3         \* rows of such a table
MaxCalls == 5       \* health results recorded by one process
MaxOdd == 2         \* irregular events in one collection run: sources without
                    \* a result dated today, failing file reads / writes

\* ---- cells, columns, series --------------------------------------------
Null == 0

Dates == 1..MaxDate
Vals == 1..MaxVal

\* the series store_data writes, in the order it writes them
StoreSeries == <<"hibor_daily", "prime_rates", "ib_rates", "fed_rates", "sofr",
                 "treasury_yields", "esaver_history">>

PromoSeries == {"esaver_history"}
Series == { StoreSeries[i] : i \in 1..Len(StoreSeries) }

\* the date-keyed series the store operations are exercised on
DateSeries == {"sofr"}

\* the sources fetch_all fetches, in the order it fetches them
Sources == <<"hibor", "prime_rates", "ib_rates", "fed_funds", "sofr",
             "treasury", "fedwatch", "hkd_forwards", "esaver">>

SourceSet == { Sources[i] : i \in 1..Len(Sources) }

KeyCol(name) == IF name \in PromoSeries THEN "promo_month" ELSE "date"

ValCols(name) ==
    IF name \in PromoSeries THEN {"hkd_esaver_rate", "usd_esaver_rate"}
    ELSE {"rate"}

\* pd.DataFrame(): no columns, no rows
EmptyFrame == [cols |-> {}, rows |-> <<>>]

\* a series whose CSV file does not exist
NoFile == [exists |-> FALSE, cols |-> {}, rows |-> <<>>]

\* DataFrame.empty: some axis has length 0
IsEmpty(df) == df.cols = {} \/ df.rows = <<>>

\* the non-null values a caller passes in a column: the full range in one
\* column, one value in the others
ColVals(c) == IF c = "hkd_esaver_rate" THEN Vals ELSE {1}

\* the rows a caller can hand to the store for a series: the key is always
\* present (possibly empty), every other field is absent, None or a value
InRows(name) ==
    { r \in UNION { [ {KeyCol(name)} \cup S -> {Null} \cup Dates \cup Vals ] :
                    S \in SUBSET ValCols(name) } :
        /\ r[KeyCol(name)] \in {Null} \cup Dates
        /\ \A c \in DOMAIN r \ {KeyCol(name)} : r[c] \in {Null} \cup ColVals(c) }

\* observation rows of a date-keyed series
DateRows == InRows("sofr")

\* ---- state ---------------------------------------------------------------
VARIABLES
    disk,     \* series name -> persisted table (the CSV file)
    health,   \* the persisted health state (fetch_health.json)
    last,     \* the last store / health call and how it ended
    pc,       \* position of the collection run in main()
    data,     \* per source, the kind of result fetch_all holds for it
    alerts,   \* what get_alerts returned to the run
    stale,    \* what check_staleness returned to the run
    nfaults   \* file reads / writes that failed in the run so far

vars == <<disk, health, last, pc, data, alerts, stale, nfaults>>

runvars == <<health, pc, data, alerts, stale, nfaults>>

Range(s) == { s[i] : i \in 1..Len(s) }

\* ---- storage.py ----------------------------------------------------------

\* load_csv without its except clause: the read error leaves the function
load_csv_noexcept(d, name, readOk) ==
    IF ~d[name].exists
    THEN [df |-> EmptyFrame, raised |-> FALSE, outcome |-> "missing"]
    ELSE IF readOk
    THEN [df |-> [cols |-> d[name].cols, rows |-> d[name].rows],
          raised |-> FALSE, outcome |-> "loaded"]
    ELSE [df |-> EmptyFrame, raised |-> TRUE, outcome |-> "unreadable"]

\* load_csv, as [df, raised, outcome]: a missing file gives the empty frame;
\* a file that cannot be read or parsed (readOk false) is caught by the
\* except clause and gives the empty frame too
load_csv_result(d, name, readOk) ==
    IF ~d[name].exists
    THEN [df |-> EmptyFrame, raised |-> FALSE, outcome |-> "missing"]
    ELSE IF readOk
    THEN [df |-> [cols |-> d[name].cols, rows |-> d[name].rows],
          raised |-> FALSE, outcome |-> "loaded"]
    ELSE [df |-> EmptyFrame, raised |-> FALSE, outcome |-> "unreadable"]

load_csv(d, name, readOk) == load_csv_result(d, name, readOk).df

\* save_csv: df.to_csv overwrites the file; a failing write raises and is
\* modelled as leaving the file as it was
save_csv(d, name, df, writeOk) ==
    IF writeOk
    THEN [disk |-> [d EXCEPT ![name] =
                      [exists |-> TRUE, cols |-> df.cols, rows |-> df.rows]],
          raised |-> FALSE, saved |-> TRUE]
    ELSE [disk |-> d, raised |-> TRUE, saved |-> FALSE]

\* df[col].astype(str) of a stored key: a missing one reads "NaT"/"nan" (-1)
StoredStr(c) == IF c = Null THEN -1 ELSE c

\* str(row.get("date", "")) of an incoming key: a missing one is "" (-2)
IncomingStr(c) == IF c = Null THEN -2 ELSE c

\* a row widened to the columns cols, Null where it has no value
Widen(r, cols) == [c \in cols |-> IF c \in DOMAIN r THEN r[c] ELSE Null]

RowCols(rows) == UNION { DOMAIN rows[i] : i \in 1..Len(rows) }

\* pd.concat([df, pd.DataFrame(rows)], ignore_index=True)
concat(df, rows) ==
    LET cols == df.cols \cup RowCols(rows)
    IN [cols |-> cols,
        rows |-> [i \in 1..(Len(df.rows) + Len(rows)) |->
                    IF i <= Len(df.rows) THEN Widen(df.rows[i], cols)
                    ELSE Widen(rows[i - Len(df.rows)], cols)]]

\* key order of sort_values: ascending, missing keys last
KeyLeq(a, b) == b = Null \/ (a # Null /\ a <= b)

IsSortedBy(rows, col) ==
    \A i \in 1..Len(rows), j \in 1..Len(rows) :
        i < j => KeyLeq(rows[i][col], rows[j][col])

\* df.sort_values(col).reset_index(drop=True): the default sort is not
\* stable, so the result is any ordering of the same rows that is sorted
sort_values(df, col) ==
    { [cols |-> df.cols, rows |-> [i \in 1..Len(df.rows) |-> df.rows[p[i]]]] :
        p \in { q \in [1..Len(df.rows) -> 1..Len(df.rows)] :
                  /\ \A i, j \in 1..Len(df.rows) : i # j => q[i] # q[j]
                  /\ IsSortedBy([i \in 1..Len(df.rows) |-> df.rows[q[i]]], col) } }

\* append_row: the result of one call, as [disk, raised, saved, outcome]
append_row(d, name, row, readOk, writeOk) ==
    LET df == load_csv(d, name, readOk)
        date_val == IF "date" \in DOMAIN row THEN row["date"] ELSE Null
    IN IF /\ ~IsEmpty(df) /\ "date" \in df.cols /\ date_val # Null
          /\ IncomingStr(date_val) \in
                { StoredStr(df.rows[i]["date"]) : i \in 1..Len(df.rows) }
       THEN [disk |-> d, raised |-> FALSE, saved |-> FALSE, outcome |-> "skipped"]
       ELSE LET s == save_csv(d, name, concat(df, <<row>>), writeOk)
            IN [disk |-> s.disk, raised |-> s.raised, saved |-> s.saved,
                outcome |-> IF s.raised THEN "raised" ELSE "inserted"]

\* the new_rows of append_rows: the incoming rows whose date is not among
\* the dates of the loaded frame df
new_rows_of(df, rows) ==
    LET existing_dates ==
            IF ~IsEmpty(df) /\ "date" \in df.cols
            THEN { StoredStr(df.rows[i]["date"]) : i \in 1..Len(df.rows) }
            ELSE {}
        get_date(r) == IF "date" \in DOMAIN r THEN r["date"] ELSE Null
        IsNew(r) == IncomingStr(get_date(r)) \notin existing_dates
    IN SelectSeq(rows, IsNew)

\* append_rows: the possible results of one call (the sort may order rows
\* with equal keys either way)
append_rows(d, name, rows, readOk, writeOk) ==
    IF rows = <<>>
    THEN {[disk |-> d, raised |-> FALSE, saved |-> FALSE, outcome |-> "noop"]}
    ELSE
    LET df == load_csv(d, name, readOk)
        new_rows == new_rows_of(df, rows)
        cat == concat(df, new_rows)
        sorted == IF "date" \in cat.cols THEN sort_values(cat, "date") ELSE {cat}
    IN IF new_rows = <<>>
       THEN {[disk |-> d, raised |-> FALSE, saved |-> FALSE, outcome |-> "skipped"]}
       ELSE { LET s == save_csv(d, name, f, writeOk)
              IN [disk |-> s.disk, raised |-> s.raised, saved |-> s.saved,
                  outcome |-> IF s.raised THEN "raised" ELSE "inserted"] :
              f \in sorted }

\* df.dropna(subset=[col]): the rows that have a value in col
dropna(df, col) ==
    LET HasVal(r) == r[col] # Null
    IN [cols |-> df.cols, rows |-> SelectSeq(df.rows, HasVal)]

\* get_change with its "len(df) < 2" test off by one
change_of_strict(f, column, days, now) ==
    LET s == dropna(f, column).rows
        n == Len(s)
        OnOrBefore(r) == r["date"] # Null /\ r["date"] <= now - days
        past == SelectSeq(s, OnOrBefore)
    IN IF n < 3 THEN <<>>
       ELSE << s[n][column] -
               (IF past = <<>> THEN s[1][column] ELSE past[Len(past)][column]) >>

\* the body of get_change on the frame f sorted by date: <<>> for None,
\* <<x>> for the number x; a missing date compares false with the cutoff
change_of(f, column, days, now) ==
    LET s == dropna(f, column).rows
        n == Len(s)
        OnOrBefore(r) == r["date"] # Null /\ r["date"] <= now - days
        past == SelectSeq(s, OnOrBefore)
    IN IF n < 2 THEN <<>>
       ELSE << s[n][column] -
               (IF past = <<>> THEN s[1][column] ELSE past[Len(past)][column]) >>

\* get_change on day now: the possible results (the sort may order rows
\* with equal dates either way; rows without a date sort last)
get_change(d, name, column, days, now, readOk) ==
    LET df == load_csv(d, name, readOk)
    IN IF IsEmpty(df) \/ "date" \notin df.cols \/ column \notin df.cols
       THEN {<<>>}
       ELSE { change_of(f, column, days, now) : f \in sort_values(df, "date") }

\* ---- main.py: _upsert_esaver ------------------------------------------------

\* the update loop without its "v is not None" test
UpdateRow_overwrite(old, esaver, cols) ==
    [c \in cols |-> IF c \in DOMAIN esaver THEN esaver[c] ELSE old[c]]

\* df.at[idx, k] = v for every item of esaver with v not None and k a column
UpdateRow(old, esaver, cols) ==
    [c \in cols |-> IF c \in DOMAIN esaver /\ esaver[c] # Null
                    THEN esaver[c] ELSE old[c]]

\* a key comparison that never matches
promo_mask_never(df, month) == {}

\* the rows of df whose promo_month, as a string, is that of the incoming
\* record (none when the frame is empty or has no such column)
promo_mask(df, month) ==
    IF ~IsEmpty(df) /\ "promo_month" \in df.cols
    THEN { i \in 1..Len(df.rows) :
             StoredStr(df.rows[i]["promo_month"]) = IncomingStr(month) }
    ELSE {}

\* the upsert whose update path adds the columns of the incoming record
\* that the table does not have yet
upsert_esaver_widening(d, esaver, readOk, writeOk) ==
    LET name == "esaver_history"
        df == load_csv(d, name, readOk)
        month == esaver["promo_month"]
        mask == promo_mask(df, month)
        cols == df.cols \cup { k \in DOMAIN esaver : esaver[k] # Null }
    IN IF mask # {}
       THEN LET idx == CHOOSE i \in mask : \A j \in mask : i <= j
                upd == [cols |-> cols,
                        rows |-> [i \in 1..Len(df.rows) |->
                                    IF i = idx
                                    THEN UpdateRow(Widen(df.rows[i], cols), esaver, cols)
                                    ELSE Widen(df.rows[i], cols)]]
                s == save_csv(d, name, upd, writeOk)
            IN {[disk |-> s.disk, raised |-> s.raised, saved |-> s.saved,
                 outcome |-> IF s.raised THEN "raised" ELSE "updated"]}
       ELSE { LET s == save_csv(d, name, f, writeOk)
              IN [disk |-> s.disk, raised |-> s.raised, saved |-> s.saved,
                  outcome |-> IF s.raised THEN "raised" ELSE "inserted"] :
              f \in sort_values(concat(df, <<esaver>>), "promo_month") }

\* _upsert_esaver: the possible results of one call; callers pass a record
\* whose promo_month is present and not empty
upsert_esaver(d, esaver, readOk, writeOk) ==
    LET name == "esaver_history"
        df == load_csv(d, name, readOk)
        month == esaver["promo_month"]
        mask == promo_mask(df, month)
    IN IF mask # {}
       THEN LET idx == CHOOSE i \in mask : \A j \in mask : i <= j
                upd == [df EXCEPT !.rows[idx] = UpdateRow(@, esaver, df.cols)]
                s == save_csv(d, name, upd, writeOk)
            IN {[disk |-> s.disk, raised |-> s.raised, saved |-> s.saved,
                 outcome |-> IF s.raised THEN "raised" ELSE "updated"]}
       ELSE { LET s == save_csv(d, name, f, writeOk)
              IN [disk |-> s.disk, raised |-> s.raised, saved |-> s.saved,
                  outcome |-> IF s.raised THEN "raised" ELSE "inserted"] :
              f \in sort_values(concat(df, <<esaver>>), "promo_month") }

\* promotion records as the caller passes them: promo_month is set
PromoRows == { r \in InRows("esaver_history") : r["promo_month"] # Null }

\* batches of at most MaxBatch observation rows, in any order of dates and
\* with repeated dates
BatchRows == { r \in DateRows : "rate" \in DOMAIN r /\ r["rate"] # Null }

DateBatches == UNION { [1..n -> BatchRows] : n \in 0..MaxBatch }

\* ---- health.py ----------------------------------------------------------------
EmptyMap == [s \in {} |-> Null]

NoHealthFile == [exists |-> FALSE, state |-> EmptyMap]

\* load_health: {} when the file is missing or cannot be read or parsed
load_health(h, readOk) ==
    IF h.exists THEN (IF readOk THEN h.state ELSE EmptyMap) ELSE EmptyMap

\* save_health: write_text overwrites the file; a failing write raises
save_health(h, state, writeOk) ==
    IF writeOk THEN [health |-> [exists |-> TRUE, state |-> state], raised |-> FALSE]
    ELSE [health |-> h, raised |-> TRUE]

\* record_fetch_result at time now, as [health, raised, ret, outcome]
record_fetch_result(h, source, success, now, readOk, writeOk) ==
    LET st0 == load_health(h, readOk)
        old == IF source \in DOMAIN st0 THEN st0[source]
               ELSE [consecutive_failures |-> 0, last_success |-> Null,
                     last_failure |-> Null]
        new == IF success
               THEN [old EXCEPT !.consecutive_failures = 0, !.last_success = now]
               ELSE [old EXCEPT !.consecutive_failures = @ + 1, !.last_failure = now]
        st == [x \in DOMAIN st0 \cup {source} |-> IF x = source THEN new ELSE st0[x]]
        sv == save_health(h, st, writeOk)
    IN [health |-> sv.health, raised |-> sv.raised,
        ret |-> new.consecutive_failures,
        outcome |-> IF sv.raised THEN "raised" ELSE "recorded"]

\* get_alerts with "consecutive_failures > threshold"
get_alerts_above(h, threshold, readOk) ==
    LET st == load_health(h, readOk)
    IN { x \in DOMAIN st : st[x].consecutive_failures > threshold }

\* get_alerts: the sources with consecutive_failures >= threshold
get_alerts(h, threshold, readOk) ==
    LET st == load_health(h, readOk)
    IN { x \in DOMAIN st : st[x].consecutive_failures >= threshold }

\* the series check_staleness looks at, in its order
csvs_to_check == <<"hibor_daily", "fed_rates", "sofr", "treasury_yields", "ib_rates">>

SeqMax(S) == CHOOSE m \in S : \A x \in S : x <= m

\* the loop body without its "no data" entry
stale_entry_silent(d, name, threshold_days, today, readOk) ==
    LET df == load_csv(d, name, readOk)
        ds == { df.rows[i]["date"] : i \in 1..Len(df.rows) } \ {Null}
    IN IF IsEmpty(df) \/ "date" \notin df.cols
       THEN <<>>
       ELSE IF ds # {} /\ today - SeqMax(ds) > threshold_days
       THEN << <<name, SeqMax(ds), today - SeqMax(ds)>> >>
       ELSE <<>>

\* the loop body with "gap >= threshold_days"
stale_entry_geq(d, name, threshold_days, today, readOk) ==
    LET df == load_csv(d, name, readOk)
        ds == { df.rows[i]["date"] : i \in 1..Len(df.rows) } \ {Null}
    IN IF IsEmpty(df) \/ "date" \notin df.cols
       THEN << <<name, Null, -1>> >>
       ELSE IF ds # {} /\ today - SeqMax(ds) >= threshold_days
       THEN << <<name, SeqMax(ds), today - SeqMax(ds)>> >>
       ELSE <<>>

\* the loop body of check_staleness for one series: what it appends to the
\* result; a series whose dates are all missing has no gap and is left out
stale_entry(d, name, threshold_days, today, readOk) ==
    LET df == load_csv(d, name, readOk)
        ds == { df.rows[i]["date"] : i \in 1..Len(df.rows) } \ {Null}
    IN IF IsEmpty(df) \/ "date" \notin df.cols
       THEN << <<name, Null, -1>> >>
       ELSE IF ds # {} /\ today - SeqMax(ds) > threshold_days
       THEN << <<name, SeqMax(ds), today - SeqMax(ds)>> >>
       ELSE <<>>

\* check_staleness: the (name, last date or "no data" (Null), gap) entries
check_staleness(d, threshold_days, today, readOk) ==
    LET build[i \in 0..Len(csvs_to_check)] ==
            IF i = 0 THEN <<>>
            ELSE build[i - 1] \o stale_entry(d, csvs_to_check[i], threshold_days,
                                             today, readOk[csvs_to_check[i]])
    IN build[Len(csvs_to_check)]

\* ---- main.py: fetch_all, store_data, main -----------------------------------------

\* the day of the collection run
Today == MaxDate

\* what each fetcher can hand to fetch_all: it raises, returns an empty
\* result, returns a result without the field store_data requires
\* ("partial"), or returns a result that store_data stores, dated today
\* ("full") or carrying an earlier or an empty date ("old")
FetchOutcomes(source) ==
    CASE source = "hibor" -> {"raise", "empty", "full", "old"}
      [] source = "prime_rates" -> {"partial", "full"}
      [] source = "ib_rates" -> {"partial", "full"}
      [] source = "fed_funds" -> {"empty", "partial", "full", "old"}
      [] source = "sofr" -> {"empty", "full", "old"}
      [] source = "treasury" -> {"empty", "partial", "full", "old"}
      [] source = "fedwatch" -> {"empty", "full"}
      [] source = "hkd_forwards" -> {"raise", "empty", "full"}
      [] source = "esaver" -> {"empty", "partial", "full", "old"}

\* the source whose result store_data writes to the i-th series
StoreSource == <<"hibor", "prime_rates", "ib_rates", "fed_funds", "sofr",
                 "treasury", "esaver">>

\* store_data without its guards
Stores_always(i, kind) == TRUE

\* the guard of the i-th block of store_data on the kind of the result
Stores(i, kind) ==
    IF StoreSeries[i] = "hibor_daily" THEN kind \in {"partial", "full", "old"}
    ELSE kind \in {"full", "old"}

\* the dates a result of the given kind can carry for the i-th series:
\* today's, or for an "old" result an earlier one or (where store_data lets
\* it through) an empty one
RunDates(i, kind) ==
    IF kind # "old" THEN {Today}
    ELSE IF StoreSeries[i] \in {"hibor_daily", "fed_rates", "sofr"}
    THEN ({Null} \cup Dates) \ {Today}
    ELSE IF StoreSeries[i] \in {"treasury_yields", "esaver_history"}
    THEN Dates \ {Today}
    ELSE {}

\* the rows the i-th block of store_data builds from a stored result
RunRows(i, kind) ==
    IF StoreSeries[i] = "esaver_history"
    THEN { [promo_month |-> m, hkd_esaver_rate |-> MaxVal,
            usd_esaver_rate |-> MaxVal] : m \in RunDates(i, kind) }
    ELSE { [date |-> dt, rate |-> MaxVal] : dt \in RunDates(i, kind) }

NotCalled(d) == [disk |-> d, raised |-> FALSE, saved |-> FALSE, outcome |-> "not_called"]

\* the i-th block of store_data on a result of the given kind
store_block(d, i, kind, row, readOk, writeOk) ==
    IF ~Stores(i, kind) THEN {NotCalled(d)}
    ELSE IF StoreSeries[i] = "esaver_history"
    THEN upsert_esaver(d, row, readOk, writeOk)
    ELSE {append_row(d, StoreSeries[i], row, readOk, writeOk)}

\* ---- operations on the store ----------------------------------------------
NoCall == [op |-> "none", name |-> "", key |-> Null, outcome |-> "none",
           raised |-> FALSE, df |-> EmptyFrame]

\* the record of a call: the operation, the series or source, the key of the
\* row it was given (Null when it has none) and how the call ended
Called(op, name, key, r) ==
    [op |-> op, name |-> name, key |-> key, outcome |-> r.outcome,
     raised |-> r.raised, df |-> EmptyFrame]

KeyOf(row, col) == IF col \in DOMAIN row THEN row[col] ELSE Null

Idle == [phase |-> "idle", i |-> 0]

Init ==
    /\ disk = [s \in Series |-> NoFile]
    /\ health = NoHealthFile
    /\ last = NoCall
    /\ pc = Idle
    /\ data = [s \in SourceSet |-> "unset"]
    /\ alerts = {}
    /\ stale = <<>>
    /\ nfaults = 0

\* a caller loads a series
LoadCsv(name, readOk) ==
    LET r == load_csv_result(disk, name, readOk)
    IN /\ disk' = disk
       /\ last' = [op |-> "load_csv", name |-> name, key |-> Null,
                   outcome |-> r.outcome, raised |-> r.raised, df |-> r.df]
       /\ UNCHANGED runvars

AppendRow(name, row, readOk, writeOk) ==
    LET r == append_row(disk, name, row, readOk, writeOk)
    IN /\ Len(r.disk[name].rows) <= MaxRows
       /\ disk' = r.disk
       /\ last' = Called("append_row", name, KeyOf(row, "date"), r)
       /\ UNCHANGED runvars

AppendRows(name, rows, readOk, writeOk) ==
    /\ LET df == load_csv(disk, name, readOk)
       IN Len(df.rows) + Len(new_rows_of(df, rows)) <= MaxRows
    /\ \E r \in append_rows(disk, name, rows, readOk, writeOk) :
       /\ disk' = r.disk
       /\ last' = Called("append_rows", name, Null, r)
    /\ UNCHANGED runvars

UpsertEsaver(esaver, readOk, writeOk) ==
    \E r \in upsert_esaver(disk, esaver, readOk, writeOk) :
       /\ Len(r.disk["esaver_history"].rows) <= MaxRows
       /\ disk' = r.disk
       /\ last' = Called("upsert_esaver", "esaver_history", esaver["promo_month"], r)
       /\ UNCHANGED runvars

\* the date-keyed series: loads, single appends, batched appends
Next ==
    \/ \E name \in DateSeries, readOk \in BOOLEAN : LoadCsv(name, readOk)
    \/ \E name \in DateSeries, readOk \in BOOLEAN, writeOk \in BOOLEAN :
         \E row \in DateRows : AppendRow(name, row, readOk, writeOk)
    \/ \E name \in DateSeries, readOk \in BOOLEAN, writeOk \in BOOLEAN :
         \E rows \in DateBatches : AppendRows(name, rows, readOk, writeOk)

Spec == Init /\ [][Next]_vars

\* the promotion records: loads and upserts by promo_month
NextUpsert ==
    \/ \E name \in PromoSeries, readOk \in BOOLEAN : LoadCsv(name, readOk)
    \/ \E esaver \in PromoRows, readOk \in BOOLEAN, writeOk \in BOOLEAN :
         UpsertEsaver(esaver, readOk, writeOk)

SpecUpsert == Init /\ [][NextUpsert]_vars

\* ---- derived metrics: get_change and check_staleness on a stored table -------

Days == 1..MaxDay

\* the values of the observed column
MetricVals == {1, 2}

\* the rows the store can hold for an observed series: a date or none, a
\* value or none
MetricRows == [date : {Null} \cup Days, rate : {Null} \cup MetricVals]

\* position of a row in the order append_rows leaves on file (by date,
\* missing dates last), rows of one date in a fixed order
RowRank(r) ==
    (IF r["date"] = Null THEN MaxDay + 1 ELSE r["date"]) * 3 + r["rate"]

\* the tables of at most MaxObs rows the store can hold for a series
MetricTables ==
    {NoFile} \cup
    { [exists |-> TRUE, cols |-> {"date", "rate"}, rows |-> rs] :
        rs \in { q \in UNION { [1..n -> MetricRows] : n \in 1..MaxObs } :
                   \A i \in 1..(Len(q) - 1) : RowRank(q[i]) <= RowRank(q[i + 1]) } }

\* the day the metric is computed on: the last day of the tables or the
\* day before it (so that a stored date can lie in the future)
Nows == {MaxDay - 1, MaxDay}

\* the reads of check_staleness that can fail: those of the series on file
StaleReads ==
    { f \in [Range(csvs_to_check) -> BOOLEAN] :
        \A n \in Range(csvs_to_check) \ {"sofr", "hibor_daily"} : f[n] }

InitMetrics ==
    /\ \E t \in MetricTables :
         disk = [s \in Series |->
                   IF s = "sofr" THEN t
                   ELSE IF s = "hibor_daily"
                   THEN [exists |-> TRUE, cols |-> {"date", "rate"},
                         rows |-> << [date |-> 1, rate |-> 1] >>]
                   ELSE NoFile]
    /\ health = NoHealthFile
    /\ last = NoCall
    /\ pc = Idle
    /\ data = [s \in SourceSet |-> "unset"]
    /\ alerts = {}
    /\ stale = <<>>
    /\ nfaults = 0

\* the report asks for the change of a column over a window
GetChange(name, column, days, now, readOk) ==
    /\ last = NoCall
    /\ \E r \in get_change(disk, name, column, days, now, readOk) :
         last' = [op |-> "get_change", name |-> name, key |-> Null,
                  outcome |-> IF r = <<>> THEN "absent" ELSE "number",
                  raised |-> FALSE, df |-> load_csv(disk, name, readOk),
                  column |-> column, days |-> days, now |-> now, ret |-> r]
    /\ UNCHANGED <<disk, runvars>>

\* a caller asks for the stale series
CheckStaleness(threshold_days, today, readOk) ==
    /\ last = NoCall
    /\ last' = [op |-> "check_staleness", name |-> "", key |-> Null,
                outcome |-> "returned", raised |-> FALSE,
                df |-> [n \in Range(csvs_to_check) |-> load_csv(disk, n, readOk[n])],
                days |-> threshold_days, now |-> today,
                ret |-> check_staleness(disk, threshold_days, today, readOk)]
    /\ UNCHANGED <<disk, runvars>>

NextMetrics ==
    \/ \E column \in {"rate", "volume"}, days \in 0..MaxDay, now \in Nows,
          readOk \in BOOLEAN : GetChange("sofr", column, days, now, readOk)
    \/ \E threshold_days \in 0..MaxDay, today \in Nows, readOk \in StaleReads :
          CheckStaleness(threshold_days, today, readOk)

SpecMetrics == InitMetrics /\ [][NextMetrics]_vars

\* ---- one collection run: main() ---------------------------------------------
AlertThreshold == 3
StaleThreshold == 3

Crashed == [phase |-> "crashed", i |-> 0]

\* the outcome of the read and of the write of one file access
IO == [r : BOOLEAN, w : BOOLEAN]
NoFault == [r |-> TRUE, w |-> TRUE]
FaultsOf(io) == (IF io.r THEN 0 ELSE 1) + (IF io.w THEN 0 ELSE 1)

\* the store after an earlier run on day 1 that stored every series
SeededDisk ==
    [s \in Series |->
        IF s \in PromoSeries
        THEN [exists |-> TRUE,
              cols |-> {"promo_month", "hkd_esaver_rate", "usd_esaver_rate"},
              rows |-> << [promo_month |-> 1, hkd_esaver_rate |-> 1,
                           usd_esaver_rate |-> 1] >>]
        ELSE [exists |-> TRUE, cols |-> {"date", "rate"},
              rows |-> << [date |-> 1, rate |-> 1] >>]]

\* the health file after k earlier runs in which the two fetchers that can
\* raise did raise and every other fetch was recorded as a success
SeededHealth(k) ==
    [exists |-> TRUE,
     state |-> [x \in SourceSet |->
                  IF x \in {"hibor", "hkd_forwards"} /\ k > 0
                  THEN [consecutive_failures |-> k, last_success |-> Null,
                        last_failure |-> 1]
                  ELSE [consecutive_failures |-> 0, last_success |-> 1,
                        last_failure |-> Null]]]

InitRun ==
    /\ \/ disk = [s \in Series |-> NoFile] /\ health = NoHealthFile
       \/ disk = SeededDisk /\ health \in { SeededHealth(k) : k \in 0..MaxFail }
    /\ last = NoCall
    /\ pc = [phase |-> "fetch", i |-> 1]
    /\ data = [s \in SourceSet |-> "unset"]
    /\ alerts = {}
    /\ stale = <<>>
    /\ nfaults = 0

Odd(dt) == Cardinality({ x \in SourceSet : dt[x] \notin {"unset", "full"} })

\* one try / except block of fetch_all: the fetcher's outcome, the health
\* record written in the try (io1) and the one written in the except (io2);
\* last keeps the record_fetch_result calls the block made (their success
\* arguments, in order) and how many of them saved the health file
FetchStep(outcome, io1, io2) ==
    /\ pc.phase = "fetch"
    /\ LET src == Sources[pc.i]
           first == record_fetch_result(health, src, TRUE, Today, io1.r, io1.w)
           second == record_fetch_result(health, src, FALSE, Today, io2.r, io2.w)
           tryOk == outcome # "raise" /\ ~first.raised
           fin == IF tryOk THEN first ELSE second
           calls == IF outcome = "raise" THEN <<FALSE>>
                    ELSE IF first.raised THEN <<TRUE, FALSE>>
                    ELSE <<TRUE>>
           saves == IF fin.raised THEN 0 ELSE 1
       IN /\ outcome \in FetchOutcomes(src)
          /\ outcome = "raise" => io1 = NoFault
          /\ tryOk => io2 = NoFault
          /\ nfaults' = nfaults + FaultsOf(io1) + FaultsOf(io2)
          /\ data' = [data EXCEPT ![src] = IF tryOk THEN outcome ELSE "empty"]
          /\ nfaults' + Odd(data') <= MaxOdd
          /\ health' = fin.health
          /\ last' = [op |-> "record_fetch_result", name |-> src, key |-> Null,
                       outcome |-> fin.outcome, raised |-> fin.raised,
                       df |-> EmptyFrame, calls |-> calls, saves |-> saves]
          /\ pc' = IF fin.raised THEN Crashed
                   ELSE IF pc.i < Len(Sources) THEN [phase |-> "fetch", i |-> pc.i + 1]
                   ELSE [phase |-> "alerts", i |-> 0]
    /\ UNCHANGED <<disk, alerts, stale>>

\* the alert query followed by the store step, without the staleness query
AlertsStep_unordered(readOk) ==
    /\ pc.phase = "alerts"
    /\ nfaults' = nfaults + (IF readOk THEN 0 ELSE 1)
    /\ nfaults' + Odd(data) <= MaxOdd
    /\ alerts' = get_alerts(health, AlertThreshold, readOk)
    /\ last' = [op |-> "get_alerts", name |-> "", key |-> Null,
                outcome |-> "returned", raised |-> FALSE,
                df |-> load_health(health, readOk), days |-> AlertThreshold,
                ret |-> alerts']
    /\ pc' = [phase |-> "store", i |-> 1]
    /\ UNCHANGED <<disk, health, data, stale>>

\* step 1b of main: get_alerts(threshold=3); send_message never raises; df is
\* the state load_health gave the query
AlertsStep(readOk) ==
    /\ pc.phase = "alerts"
    /\ nfaults' = nfaults + (IF readOk THEN 0 ELSE 1)
    /\ nfaults' + Odd(data) <= MaxOdd
    /\ alerts' = get_alerts(health, AlertThreshold, readOk)
    /\ last' = [op |-> "get_alerts", name |-> "", key |-> Null,
                outcome |-> "returned", raised |-> FALSE,
                df |-> load_health(health, readOk), days |-> AlertThreshold,
                ret |-> alerts']
    /\ pc' = [phase |-> "stale", i |-> 0]
    /\ UNCHANGED <<disk, health, data, stale>>

\* step 1c of main: check_staleness(threshold_days=3)
StaleStep(readOk) ==
    /\ pc.phase = "stale"
    /\ nfaults' = nfaults + Cardinality({ n \in DOMAIN readOk : ~readOk[n] })
    /\ nfaults' + Odd(data) <= MaxOdd
    /\ stale' = check_staleness(disk, StaleThreshold, Today, readOk)
    /\ pc' = [phase |-> "store", i |-> 1]
    /\ UNCHANGED <<disk, health, last, data, alerts>>

\* step 2 of main: one block of store_data; an exception of the store call
\* leaves store_data and main
StoreStep(row, io) ==
    /\ pc.phase = "store"
    /\ LET kind == data[StoreSource[pc.i]]
       IN /\ IF Stores(pc.i, kind) THEN row \in RunRows(pc.i, kind)
             ELSE row = EmptyMap /\ io = NoFault
          /\ nfaults' = nfaults + FaultsOf(io)
          /\ nfaults' + Odd(data) <= MaxOdd
          /\ \E r \in store_block(disk, pc.i, kind, row, io.r, io.w) :
               /\ disk' = r.disk
               /\ last' = Called("store_data", StoreSeries[pc.i],
                                 KeyOf(row, KeyCol(StoreSeries[pc.i])), r)
               /\ pc' = IF r.raised THEN Crashed
                        ELSE IF pc.i < Len(StoreSeries)
                        THEN [phase |-> "store", i |-> pc.i + 1]
                        ELSE [phase |-> "report", i |-> 0]
    /\ UNCHANGED <<health, data, alerts, stale>>

\* step 3 of main: the weekly report, or nothing on other days
ReportStep(weekly) ==
    /\ pc.phase = "report"
    /\ pc' = [phase |-> "done", i |-> IF weekly THEN 1 ELSE 0]
    /\ UNCHANGED <<disk, health, last, data, alerts, stale, nfaults>>

RunRowSet ==
    UNION { RunRows(i, kind) : i \in 1..Len(StoreSeries), kind \in {"full", "old"} }
        \cup {EmptyMap}

NextRun ==
    \/ \E outcome \in {"raise", "empty", "partial", "full", "old"}, io1 \in IO, io2 \in IO :
         FetchStep(outcome, io1, io2)
    \/ \E readOk \in BOOLEAN : AlertsStep(readOk)
    \/ \E readOk \in [{ csvs_to_check[i] : i \in 1..Len(csvs_to_check) } -> BOOLEAN] :
         StaleStep(readOk)
    \/ \E row \in RunRowSet, io \in IO : StoreStep(row, io)
    \/ \E weekly \in BOOLEAN : ReportStep(weekly)

SpecRun == InitRun /\ [][NextRun]_vars

\* ---- the health tracker: a sequence of calls by one process ------------------
\* the sources whose results are recorded
HealthSources == {"hibor", "sofr"}

\* the thresholds get_alerts is asked with
Thresholds == 1..AlertThreshold

\* no health file, no result recorded yet; data is the list of the
\* (source, success) results whose call returned
InitHealth ==
    /\ disk = [s \in Series |-> NoFile]
    /\ health = NoHealthFile
    /\ last = NoCall
    /\ pc = Idle
    /\ data = <<>>
    /\ alerts = {}
    /\ stale = <<>>
    /\ nfaults = 0

\* record_fetch_result(source, success); a failing write leaves the call
\* with an exception
RecordResult(source, success, io) ==
    /\ Len(data) < MaxCalls
    /\ nfaults' = nfaults + FaultsOf(io)
    /\ nfaults' <= MaxOdd
    /\ LET r == record_fetch_result(health, source, success, Today, io.r, io.w)
       IN /\ health' = r.health
          /\ data' = IF r.raised THEN data ELSE Append(data, <<source, success>>)
          /\ last' = [op |-> "record_fetch_result", name |-> source, key |-> Null,
                      outcome |-> r.outcome, raised |-> r.raised, df |-> EmptyFrame,
                      ret |-> r.ret]
    /\ UNCHANGED <<disk, pc, alerts, stale>>

\* get_alerts(threshold): df is the state load_health gave it
GetAlerts(threshold, readOk) ==
    /\ nfaults' = nfaults + (IF readOk THEN 0 ELSE 1)
    /\ nfaults' <= MaxOdd
    /\ alerts' = get_alerts(health, threshold, readOk)
    /\ last' = [op |-> "get_alerts", name |-> "", key |-> Null,
                outcome |-> "returned", raised |-> FALSE,
                df |-> load_health(health, readOk), days |-> threshold,
                ret |-> alerts']
    /\ UNCHANGED <<disk, health, pc, data, stale>>

NextHealth ==
    \/ \E source \in HealthSources, success \in BOOLEAN, io \in IO :
         RecordResult(source, success, io)
    \/ \E threshold \in Thresholds, readOk \in BOOLEAN : GetAlerts(threshold, readOk)

SpecHealth == InitHealth /\ [][NextHealth]_vars

\* ---- two runs on one series: load and save as separate steps -----------------
Runs == {1, 2}

\* the rows the runs append: every one carries a date
RaceRows == { r \in DateRows : r["date"] # Null }

\* what a run is asked to store: one row (append_row) or a batch (append_rows)
RaceInputs ==
    { [op |-> "append_row", rows |-> <<r>>] : r \in RaceRows }
        \cup { [op |-> "append_rows", rows |-> b] :
                 b \in { x \in DateBatches :
                           x # <<>> /\ \A i \in 1..Len(x) : x[i]["date"] # Null } }

\* a run between two store calls
NotLoaded == [at |-> "idle", op |-> "none", rows |-> <<>>, seen |-> NoFile,
              readOk |-> TRUE]

Serial == [phase |-> "serial", i |-> 0]
Interleaved == [phase |-> "interleaved", i |-> 0]

\* data holds what each run has loaded, alerts the dates of the rows whose
\* append call saved them, pc whether two calls have overlapped so far
InitRace ==
    /\ disk = [s \in Series |-> NoFile]
    /\ health = NoHealthFile
    /\ last = NoCall
    /\ pc = Serial
    /\ data = [p \in Runs |-> NotLoaded]
    /\ alerts = {}
    /\ stale = <<>>
    /\ nfaults = 0

\* the first half of append_row / append_rows in run p: load_csv(name)
RaceLoad(p, input, readOk) ==
    /\ data[p].at = "idle"
    /\ ~readOk => disk["sofr"].exists
    /\ Len(disk["sofr"].rows) + Len(input.rows) <= MaxRows
    /\ nfaults' = nfaults + (IF readOk THEN 0 ELSE 1)
    /\ nfaults' <= MaxOdd
    /\ data' = [data EXCEPT ![p] = [at |-> "loaded", op |-> input.op,
                                     rows |-> input.rows, seen |-> disk["sofr"],
                                     readOk |-> readOk]]
    /\ pc' = IF \E q \in Runs \ {p} : data[q].at = "loaded" THEN Interleaved ELSE pc
    /\ UNCHANGED <<disk, health, last, alerts, stale>>

\* the second half in run p: the date test, concat (and sort) and save_csv on
\* the frame the run loaded
RaceSave(p, writeOk) ==
    /\ data[p].at = "loaded"
    /\ nfaults' = nfaults + (IF writeOk THEN 0 ELSE 1)
    /\ nfaults' <= MaxOdd
    /\ LET snap == [disk EXCEPT !["sofr"] = data[p].seen]
           df == load_csv(snap, "sofr", data[p].readOk)
           res == IF data[p].op = "append_row"
                  THEN {append_row(snap, "sofr", data[p].rows[1], data[p].readOk, writeOk)}
                  ELSE append_rows(snap, "sofr", data[p].rows, data[p].readOk, writeOk)
           added == IF data[p].op = "append_row" THEN data[p].rows
                    ELSE new_rows_of(df, data[p].rows)
       IN \E r \in res :
            /\ disk' = IF r.saved THEN [disk EXCEPT !["sofr"] = r.disk["sofr"]] ELSE disk
            /\ alerts' = IF r.saved
                         THEN alerts \cup { added[i]["date"] : i \in 1..Len(added) }
                         ELSE alerts
            /\ last' = Called(data[p].op, "sofr", Null, r)
    /\ data' = [data EXCEPT ![p] = NotLoaded]
    /\ UNCHANGED <<health, pc, stale>>

NextRace ==
    \/ \E p \in Runs, input \in RaceInputs, readOk \in BOOLEAN : RaceLoad(p, input, readOk)
    \/ \E p \in Runs, writeOk \in BOOLEAN : RaceSave(p, writeOk)

SpecRace == InitRace /\ [][NextRace]_vars

\* ---- two processes recording results: load_health and save_health as
\* ---- separate steps
\* the number of record_fetch_result calls of the two processes together
MaxRaceCalls == 3

\* a process between two record_fetch_result calls
NoRecord == [at |-> "idle", source |-> "", success |-> TRUE, seen |-> NoHealthFile,
             readOk |-> TRUE]

\* data holds what each process has loaded, stale the (source, success)
\* results whose call saved the file, in the order of the saves, pc whether
\* two calls have overlapped so far
InitHealthRace ==
    /\ disk = [s \in Series |-> NoFile]
    /\ health = NoHealthFile
    /\ last = NoCall
    /\ pc = Serial
    /\ data = [p \in Runs |-> NoRecord]
    /\ alerts = {}
    /\ stale = <<>>
    /\ nfaults = 0

\* the first line of record_fetch_result in process p: state = load_health()
HealthLoad(p, source, success, readOk) ==
    /\ data[p].at = "idle"
    /\ ~readOk => health.exists
    /\ Len(stale) + Cardinality({ q \in Runs : data[q].at = "loaded" }) < MaxRaceCalls
    /\ nfaults' = nfaults + (IF readOk THEN 0 ELSE 1)
    /\ nfaults' <= MaxOdd
    /\ data' = [data EXCEPT ![p] = [at |-> "loaded", source |-> source,
                                     success |-> success, seen |-> health,
                                     readOk |-> readOk]]
    /\ pc' = IF \E q \in Runs \ {p} : data[q].at = "loaded" THEN Interleaved ELSE pc
    /\ UNCHANGED <<disk, health, last, alerts, stale>>

\* the rest of the call in process p: the update of the loaded map and
\* save_health
HealthSave(p, writeOk) ==
    /\ data[p].at = "loaded"
    /\ nfaults' = nfaults + (IF writeOk THEN 0 ELSE 1)
    /\ nfaults' <= MaxOdd
    /\ LET r == record_fetch_result(data[p].seen, data[p].source, data[p].success,
                                    Today, data[p].readOk, writeOk)
       IN /\ health' = IF r.raised THEN health ELSE r.health
          /\ stale' = IF r.raised THEN stale
                      ELSE Append(stale, <<data[p].source, data[p].success>>)
          /\ last' = [op |-> "record_fetch_result", name |-> data[p].source,
                      key |-> Null, outcome |-> r.outcome, raised |-> r.raised,
                      df |-> EmptyFrame, ret |-> r.ret]
    /\ data' = [data EXCEPT ![p] = NoRecord]
    /\ UNCHANGED <<disk, pc, alerts>>

NextHealthRace ==
    \/ \E p \in Runs, source \in HealthSources, success \in BOOLEAN, readOk \in BOOLEAN :
         HealthLoad(p, source, success, readOk)
    \/ \E p \in Runs, writeOk \in BOOLEAN : HealthSave(p, writeOk)

SpecHealthRace == InitHealthRace /\ [][NextHealthRace]_vars

\* ---- report.py: _build_hkd_chart_svg ------------------------------------------
pad_left == 55
pad_right == 20
pad_top == 20
pad_bottom == 40
ChartWidth == 860
ChartHeight == 320
plot_w == ChartWidth - pad_left - pad_right
plot_h == ChartHeight - pad_top - pad_bottom

\* a continuous series of more than DownsampleOver points is thinned to
\* every (len // DownsampleTarget)-th point
DownsampleOver == 500
DownsampleTarget == 400

\* format(x, ".1f") of the fraction n / d >= 0, in tenths
Tenths(n, d) == (20 * n + d) \div (2 * d)

\* the series the chart reads
ChartSeries == {"hibor_daily", "prime_rates", "ib_rates"}

\* one table after load_csv, pd.to_datetime and sort_values("date"): the sort
\* is one fixed function of the table, whichever order it gives equal dates
ChartFrame(d, name, readOk) ==
    LET df == load_csv(d, name, readOk)
        InOrder == \A i \in 1..(Len(df.rows) - 1) :
                      /\ df.rows[i]["date"] # Null /\ df.rows[i + 1]["date"] # Null
                      /\ df.rows[i]["date"] < df.rows[i + 1]["date"]
    IN IF IsEmpty(df) \/ "date" \notin df.cols THEN df
       ELSE IF InOrder THEN df
       ELSE CHOOSE f \in sort_values(df, "date") : TRUE

\* series_defs: (label, csv_name, column, step) in the order of the code
series_defs(prime_df, ib_df) ==
    << [label |-> "HIBOR O/N", csv_name |-> "hibor_daily", col |-> "Overnight", step |-> FALSE],
       [label |-> "HIBOR 1M", csv_name |-> "hibor_daily", col |-> "1 Month", step |-> FALSE],
       [label |-> "HIBOR 3M", csv_name |-> "hibor_daily", col |-> "3 Months", step |-> FALSE],
       [label |-> "HIBOR 12M", csv_name |-> "hibor_daily", col |-> "12 Months", step |-> FALSE] >>
    \o (IF ~IsEmpty(prime_df) /\ "date" \in prime_df.cols /\ "HSBC" \in prime_df.cols
        THEN << [label |-> "P (HSBC)", csv_name |-> "prime_rates", col |-> "HSBC", step |-> TRUE] >>
        ELSE <<>>)
    \o (IF ~IsEmpty(prime_df) /\ "date" \in prime_df.cols /\ "DBS" \in prime_df.cols
        THEN << [label |-> "P (DBS)", csv_name |-> "prime_rates", col |-> "DBS", step |-> TRUE] >>
        ELSE <<>>)
    \o (IF ~IsEmpty(ib_df) /\ "date" \in ib_df.cols /\ "hkd_rate" \in ib_df.cols
        THEN << [label |-> "IB HKD", csv_name |-> "ib_rates", col |-> "hkd_rate", step |-> FALSE] >>
        ELSE <<>>)

\* df[["date", col]].dropna(subset=[col]) as (date, value) pairs; no pairs
\* when the table is not in dfs or lacks the column
Selected(dfs, def) ==
    LET df == dfs[def.csv_name]
    IN IF IsEmpty(df) \/ def.col \notin df.cols THEN <<>>
       ELSE LET kept == dropna(df, def.col).rows
            IN [i \in 1..Len(kept) |-> <<kept[i]["date"], kept[i][def.col]>>]

SeqMin(S) == CHOOSE m \in S : \A x \in S : m <= x

\* the downsampling with its step taken from the threshold: len // 500
Thinned_by_threshold(s) ==
    IF Len(s) > DownsampleOver
    THEN LET ds_step == Len(s) \div DownsampleOver
             n == (Len(s) + ds_step - 1) \div ds_step
         IN [i \in 1..n |-> s[(i - 1) * ds_step + 1]]
    ELSE s

\* s.iloc[::ds_step] for a continuous series of more than DownsampleOver points
Thinned(s) ==
    IF Len(s) > DownsampleOver
    THEN LET ds_step == Len(s) \div DownsampleTarget
             n == (Len(s) + ds_step - 1) \div ds_step
         IN [i \in 1..n |-> s[(i - 1) * ds_step + 1]]
    ELSE s

\* the tables of the chart after loading and sorting, the series definitions
\* and, per definition, its (date, value) pairs
chart_inputs(d, readOk) ==
    LET hibor_df == ChartFrame(d, "hibor_daily", readOk["hibor_daily"])
        prime_df == ChartFrame(d, "prime_rates", readOk["prime_rates"])
        ib_df == ChartFrame(d, "ib_rates", readOk["ib_rates"])
        dfs == [n \in ChartSeries |->
                  IF n = "hibor_daily" THEN hibor_df
                  ELSE IF n = "prime_rates" THEN prime_df ELSE ib_df]
        defs == series_defs(prime_df, ib_df)
    IN [hibor_df |-> hibor_df, defs |-> defs,
        sel |-> [k \in 1..Len(defs) |-> Selected(dfs, defs[k])]]

\* the global date and value range of the selected pairs; val_range 1 when
\* all values are equal
chart_scale(sel) ==
    LET all_dates == UNION { { sel[k][i][1] : i \in 1..Len(sel[k]) } : k \in 1..Len(sel) }
        all_vals == UNION { { sel[k][i][2] : i \in 1..Len(sel[k]) } : k \in 1..Len(sel) }
    IN [date_min |-> SeqMin(all_dates), date_max |-> SeqMax(all_dates),
        date_range |-> SeqMax(all_dates) - SeqMin(all_dates),
        val_min |-> SeqMin(all_vals),
        val_range |-> IF SeqMax(all_vals) = SeqMin(all_vals) THEN 1
                      ELSE SeqMax(all_vals) - SeqMin(all_vals)]

\* pad_left + ((dt - date_min) / date_range) * plot_w, formatted
x_pos(sc, dt) ==
    Tenths(pad_left * sc.date_range + (dt - sc.date_min) * plot_w, sc.date_range)

\* pad_top + plot_h - ((v - val_min) / val_range) * plot_h, formatted, after
\* the 5% padding: val_min - val_range / 20 and val_range * 11 / 10
y_pos(sc, v) ==
    Tenths((pad_top + plot_h) * 22 * sc.val_range
             - (20 * (v - sc.val_min) + sc.val_range) * plot_h,
           22 * sc.val_range)

\* a step series drawn with straight segments from point to point
step_points_direct(sc, rows, today) ==
    LET end_dt == IF today < sc.date_max THEN today ELSE sc.date_max
    IN [i \in 1..Len(rows) |-> <<x_pos(sc, rows[i][1]), y_pos(sc, rows[i][2])>>]
         \o (IF end_dt > rows[Len(rows)][1]
             THEN << <<x_pos(sc, end_dt), y_pos(sc, rows[Len(rows)][2])>> >> ELSE <<>>)

\* the points of a step series: at each row after the first the previous
\* value at the new date, then the new value; at the end the last value
\* extended to min(today, date_max)
step_points(sc, rows, today) ==
    LET upto[i \in 0..Len(rows)] ==
            IF i = 0 THEN <<>>
            ELSE upto[i - 1]
                 \o (IF i > 1
                     THEN << <<x_pos(sc, rows[i][1]), y_pos(sc, rows[i - 1][2])>> >>
                     ELSE <<>>)
                 \o << <<x_pos(sc, rows[i][1]), y_pos(sc, rows[i][2])>> >>
        end_dt == IF today < sc.date_max THEN today ELSE sc.date_max
    IN upto[Len(rows)]
         \o (IF end_dt > rows[Len(rows)][1]
             THEN << <<x_pos(sc, end_dt), y_pos(sc, rows[Len(rows)][2])>> >> ELSE <<>>)

\* the points of a continuous series
line_points(sc, rows) ==
    LET t == Thinned(rows)
    IN [i \in 1..Len(t) |-> <<x_pos(sc, t[i][1]), y_pos(sc, t[i][2])>>]

NoChart == [emitted |-> FALSE, polylines |-> <<>>]

\* the chart with no output when all values are equal
build_hkd_chart_flatless(d, today, readOk) ==
    LET in == chart_inputs(d, readOk)
        sc == chart_scale(in.sel)
        vals == UNION { { in.sel[k][i][2] : i \in 1..Len(in.sel[k]) } :
                          k \in 1..Len(in.sel) }
        lines[k \in 0..Len(in.defs)] ==
            IF k = 0 THEN <<>>
            ELSE IF in.sel[k] = <<>> THEN lines[k - 1]
            ELSE Append(lines[k - 1],
                        [label |-> in.defs[k].label,
                         points |-> IF in.defs[k].step
                                    THEN step_points(sc, in.sel[k], today)
                                    ELSE line_points(sc, in.sel[k])])
    IN IF IsEmpty(in.hibor_df) \/ "date" \notin in.hibor_df.cols THEN NoChart
       ELSE IF \A k \in 1..Len(in.defs) : in.sel[k] = <<>> THEN NoChart
       ELSE IF sc.date_range = 0 \/ Cardinality(vals) = 1 THEN NoChart
       ELSE [emitted |-> TRUE, polylines |-> lines[Len(in.defs)]]

\* the chart built at day today: the polylines (label, points) in the order
\* they are emitted, each point as the pair of its formatted coordinates
build_hkd_chart(d, today, readOk) ==
    LET in == chart_inputs(d, readOk)
        sc == chart_scale(in.sel)
        lines[k \in 0..Len(in.defs)] ==
            IF k = 0 THEN <<>>
            ELSE IF in.sel[k] = <<>> THEN lines[k - 1]
            ELSE Append(lines[k - 1],
                        [label |-> in.defs[k].label,
                         points |-> IF in.defs[k].step
                                    THEN step_points(sc, in.sel[k], today)
                                    ELSE line_points(sc, in.sel[k])])
    IN IF IsEmpty(in.hibor_df) \/ "date" \notin in.hibor_df.cols THEN NoChart
       ELSE IF \A k \in 1..Len(in.defs) : in.sel[k] = <<>> THEN NoChart
       ELSE IF sc.date_range = 0 THEN NoChart
       ELSE [emitted |-> TRUE, polylines |-> lines[Len(in.defs)]]

\* the legend with the entry of the series drawn last put first
legend_items_newest_first(chart) ==
    [n \in 1..Len(chart.polylines) |->
        chart.polylines[Len(chart.polylines) + 1 - n].label]

\* legend_items: one label appended for each polyline that is emitted, and
\* the legend loop draws them in that order
legend_items(chart) ==
    [n \in 1..Len(chart.polylines) |-> chart.polylines[n].label]

\* ---- the chart built from stored tables ------------------------------------------
\* the days in S in ascending order
RECURSIVE Ascending(_)
Ascending(S) ==
    IF S = {} THEN <<>> ELSE <<SeqMin(S)>> \o Ascending(S \ {SeqMin(S)})

\* the tables of at most n rows with one value column that append_row can
\* leave on file when every row is stored on its own day: one row per date,
\* in date order
ChartTables(col, vals, n) ==
    {NoFile} \cup
    { [exists |-> TRUE, cols |-> {"date", col},
       rows |-> [i \in 1..Cardinality(S) |->
                   [c \in {"date", col} |->
                      IF c = "date" THEN Ascending(S)[i] ELSE f[Ascending(S)[i]]]]] :
        S \in { T \in SUBSET Days : T # {} /\ Cardinality(T) <= n },
        f \in [Days -> vals] }

\* the HIBOR table: one fixing per day; the prime-rate table: a rate or none
\* per stored day
HiborTables == ChartTables("Overnight", {1}, MaxRows)

PrimeTables == ChartTables("HSBC", {Null} \cup MetricVals, MaxObs)

\* the reads of one chart build: at most one of the tables on file fails
ChartReads ==
    { f \in [ChartSeries -> BOOLEAN] :
        f["ib_rates"] /\ (f["hibor_daily"] \/ f["prime_rates"]) }

InitChart ==
    /\ \E h \in HiborTables, p \in PrimeTables :
         disk = [s \in Series |->
                   IF s = "hibor_daily" THEN h
                   ELSE IF s = "prime_rates" THEN p ELSE NoFile]
    /\ health = NoHealthFile
    /\ last = NoCall
    /\ pc = Idle
    /\ data = [s \in SourceSet |-> "unset"]
    /\ alerts = {}
    /\ stale = <<>>
    /\ nfaults = 0

\* one call of _build_hkd_chart_svg on day today
BuildChart(today, readOk) ==
    /\ \A n \in ChartSeries : ~readOk[n] => disk[n].exists
    /\ LET r == build_hkd_chart(disk, today, readOk)
       IN last' = [op |-> "build_hkd_chart", name |-> "", key |-> Null,
                   outcome |-> IF r.emitted THEN "chart" ELSE "empty",
                   raised |-> FALSE, df |-> EmptyFrame, now |-> today,
                   reads |-> readOk, ret |-> r]
    /\ UNCHANGED <<disk, runvars>>

NextChart == \E today \in Days, readOk \in ChartReads : BuildChart(today, readOk)

SpecChart == InitChart /\ [][NextChart]_vars

\* ---- report.py: generate_report -------------------------------------------------
AllRead == [n \in ChartSeries |-> TRUE]

\* the windows of the change badges, in days
ReportWindows == {7, 30}

\* the change badges the report asks for: those of the sources whose result
\* holds a value
report_changes(d, fresh, now) ==
    { <<name, days, get_change(d, name, IF name = "sofr" THEN "rate" ELSE "Overnight",
                              days, now, TRUE)>> :
        name \in { n \in {"hibor_daily", "sofr"} :
                    (n = "sofr" /\ "sofr" \in fresh)
                      \/ (n = "hibor_daily" /\ "hibor" \in fresh) },
        days \in ReportWindows }

\* _build_esaver_history: the promotion records in month order
build_esaver_history(d) ==
    LET df == load_csv(d, "esaver_history", TRUE)
    IN IF IsEmpty(df) THEN {<<>>}
       ELSE { f.rows : f \in sort_values(df, "promo_month") }

\* a report that writes the prime-rate table back after dropping the rows
\* without a value
generate_report_saving(d, h, fresh, now) ==
    LET prime == load_csv(d, "prime_rates", TRUE)
    IN [disk |-> IF IsEmpty(prime) \/ "HSBC" \notin prime.cols THEN d
                 ELSE save_csv(d, "prime_rates", dropna(prime, "HSBC"), TRUE).disk,
        health |-> h,
        html |-> [hkd_chart |-> build_hkd_chart(d, now, AllRead),
                  changes |-> report_changes(d, fresh, now),
                  esaver_history |-> build_esaver_history(d)]]

\* generate_report: the store and the health file after the call, and what
\* the template is rendered from
generate_report(d, h, fresh, now) ==
    [disk |-> d,
     health |-> h,
     html |-> [hkd_chart |-> build_hkd_chart(d, now, AllRead),
               changes |-> report_changes(d, fresh, now),
               esaver_history |-> build_esaver_history(d)]]

\* stored tables of the chart series, with or without a health file
InitReport ==
    /\ \E h \in HiborTables, p \in PrimeTables :
         disk = [s \in Series |->
                   IF s = "hibor_daily" THEN h
                   ELSE IF s = "prime_rates" THEN p ELSE NoFile]
    /\ health \in {NoHealthFile, SeededHealth(1)}
    /\ last = NoCall
    /\ pc = Idle
    /\ data = [s \in SourceSet |-> "unset"]
    /\ alerts = {}
    /\ stale = <<>>
    /\ nfaults = 0

GenerateReport(fresh, now) ==
    /\ last = NoCall
    /\ LET r == generate_report(disk, health, fresh, now)
       IN /\ disk' = r.disk
          /\ health' = r.health
          /\ last' = [op |-> "generate_report", name |-> "", key |-> Null,
                      outcome |-> IF r.html.hkd_chart.emitted THEN "chart" ELSE "empty",
                      raised |-> FALSE, df |-> EmptyFrame, now |-> now,
                      ret |-> r.html]
    /\ UNCHANGED <<pc, data, alerts, stale, nfaults>>

\* the derived views, each asked once of a stored state
NextReport ==
    \/ \E fresh \in SUBSET {"hibor", "sofr"}, now \in Days : GenerateReport(fresh, now)
    \/ \E today \in Days : last = NoCall /\ BuildChart(today, AllRead)
    \/ \E days \in 0..MaxDay, now \in Nows, readOk \in BOOLEAN :
          GetChange("hibor_daily", "Overnight", days, now, readOk)
    \/ \E threshold_days \in 0..MaxDay, today \in Nows, readOk \in StaleReads :
          CheckStaleness(threshold_days, today, readOk)

SpecReport == InitReport /\ [][NextReport]_vars

\* ---- properties ---------------------------------------------------------------------

\* the non-null keys a persisted table holds in column col
StoredKeys(t, col) ==
    IF col \in t.cols THEN { t.rows[i][col] : i \in 1..Len(t.rows) } \ {Null}
    ELSE {}

RowsWithKey(t, col, k) ==
    IF col \in t.cols THEN { i \in 1..Len(t.rows) : t.rows[i][col] = k } ELSE {}

\* C1: an append_row call whose row has a non-empty date that is already
\* stored leaves exactly one row for that date and changes nothing in the
\* persisted table (so the row keeps the values of the first append).
C1_IdempotentAppend ==
    [][ (/\ last'.op = "append_row"
         /\ last'.key # Null
         /\ last'.key \in StoredKeys(disk[last'.name], "date"))
        => /\ disk' = disk
           /\ Cardinality(RowsWithKey(disk'[last'.name], "date", last'.key)) = 1 ]_vars

\* C2: the persisted table of every series holds at most one row per date.
C2_DateUnique ==
    \A name \in Series \ PromoSeries :
        \A k \in StoredKeys(disk[name], "date") :
            Cardinality(RowsWithKey(disk[name], "date", k)) <= 1

\* C3: the persisted rows of every series are in non-decreasing order of the
\* key column (date, or promo_month for the promotion records).
C3_SortedByKey ==
    \A name \in Series :
        LET t == disk[name]
            col == KeyCol(name)
        IN col \in t.cols =>
             \A i \in 1..Len(t.rows), j \in 1..Len(t.rows) :
                 (i < j /\ t.rows[i][col] # Null /\ t.rows[j][col] # Null)
                     => t.rows[i][col] <= t.rows[j][col]

\* a stored non-null cell for which the incoming row has no value is still
\* there, with its value, in the row of the same key of the new table
CellsKept(old, new, row, col) ==
    \A i \in 1..Len(old.rows), c \in old.cols :
        (old.rows[i][c] # Null /\ KeyOf(row, c) = Null)
            => \E j \in 1..Len(new.rows) :
                  /\ c \in new.cols
                  /\ new.rows[j][col] = old.rows[i][col]
                  /\ new.rows[j][c] = old.rows[i][c]

\* C4: no store operation changes a stored non-null cell for which the
\* incoming row has a null or missing value (here: append_row and append_rows
\* on the date-keyed series, whatever the call and its I/O).
C4_NoNullOverwrite ==
    \A name \in DateSeries, readOk \in BOOLEAN, writeOk \in BOOLEAN :
        /\ \A row \in DateRows :
              CellsKept(disk[name],
                        append_row(disk, name, row, readOk, writeOk).disk[name],
                        row, "date")
        /\ \A row \in DateRows :
              \A r \in append_rows(disk, name, <<row>>, readOk, writeOk) :
                  CellsKept(disk[name], r.disk[name], row, "date")

\* C5: an upsert that finds a row with the key gives every existing column
\* the incoming value where that is non-null, keeps every other column of the
\* row, keeps the column set and the row count, and leaves all other rows as
\* they were.
C5_UpsertPreservesFields ==
    \A esaver \in PromoRows, readOk \in BOOLEAN, writeOk \in BOOLEAN :
        \A r \in upsert_esaver(disk, esaver, readOk, writeOk) :
            r.outcome = "updated" =>
                LET old == disk["esaver_history"]
                    new == r.disk["esaver_history"]
                IN /\ new.cols = old.cols
                   /\ Len(new.rows) = Len(old.rows)
                   /\ \E idx \in 1..Len(old.rows) :
                        /\ old.rows[idx]["promo_month"] = esaver["promo_month"]
                        /\ \A c \in old.cols :
                              new.rows[idx][c] =
                                  IF KeyOf(esaver, c) # Null THEN esaver[c]
                                  ELSE old.rows[idx][c]
                        /\ \A i \in 1..Len(old.rows) :
                              i # idx => new.rows[i] = old.rows[i]

\* an upsert found a row, gave it a new value in one column and kept the
\* value of another column the incoming record did not carry; another row exists
C5_Witness ==
    /\ last.op = "upsert_esaver" /\ last.outcome = "updated"
    /\ Len(disk["esaver_history"].rows) = 2
    /\ ValCols("esaver_history") \subseteq disk["esaver_history"].cols
    /\ \E i \in 1..2 :
         LET row == disk["esaver_history"].rows[i]
         IN /\ row["promo_month"] = last.key
            /\ row["hkd_esaver_rate"] = 2
            /\ row["usd_esaver_rate"] = 1

\* C6: the promotion table holds at most one row per promo_month, and an
\* upsert for a promo_month that is already stored never adds a row.
C6_PromoUnique ==
    [][ /\ \A k \in StoredKeys(disk'["esaver_history"], "promo_month") :
             Cardinality(RowsWithKey(disk'["esaver_history"], "promo_month", k)) = 1
        /\ (/\ last'.op = "upsert_esaver"
            /\ last'.key \in StoredKeys(disk["esaver_history"], "promo_month"))
           => /\ Len(disk'["esaver_history"].rows) <= Len(disk["esaver_history"].rows)
              /\ last'.key \in StoredKeys(disk'["esaver_history"], "promo_month") ]_vars

\* two promotion months are stored and the last upsert updated one of them
C6_Witness ==
    /\ last.op = "upsert_esaver" /\ last.outcome = "updated"
    /\ Cardinality(StoredKeys(disk["esaver_history"], "promo_month")) = 2

\* C7: no store operation removes a key that was persisted: every date (or
\* promo_month) stored before a step is stored after it.
C7_SeriesOnlyGrow ==
    [][ \A name \in Series :
          StoredKeys(disk[name], KeyCol(name)) \subseteq
              StoredKeys(disk'[name], KeyCol(name)) ]_vars

\* C8: load_csv never raises, returns the empty table when the file is
\* missing and when the file exists but cannot be read, and leaves the
\* persisted storage as it was.
C8_LoadNeverRaises ==
    [][ last'.op = "load_csv"
        => /\ ~last'.raised
           /\ disk' = disk
           /\ (~disk[last'.name].exists \/ last'.outcome = "unreadable")
                 => last'.df = EmptyFrame ]_vars

\* a load of a series that has rows on file failed to read and gave the
\* empty table
C8_Witness ==
    /\ last.op = "load_csv" /\ last.outcome = "unreadable"
    /\ disk[last.name].exists /\ disk[last.name].rows # <<>>
    /\ last.df = EmptyFrame /\ ~last.raised

\* C9: no exception of a store or health operation leaves the collection run.
C9_NoAbort == pc.phase # "crashed"

\* C10: append_rows with an empty list, and the block of store_data for a
\* source whose result is empty, leave the persisted tables unchanged, write
\* no file and raise nothing, whatever the I/O would have done.
C10_EmptyInputNoOp ==
    /\ \A name \in Series \ PromoSeries, readOk \in BOOLEAN, writeOk \in BOOLEAN :
          \A r \in append_rows(disk, name, <<>>, readOk, writeOk) :
              r.disk = disk /\ ~r.saved /\ ~r.raised
    /\ \A i \in 1..Len(StoreSeries), readOk \in BOOLEAN, writeOk \in BOOLEAN :
          \A row \in RunRows(i, "full") \cup RunRows(i, "old") :
              \A r \in store_block(disk, i, "empty", row, readOk, writeOk) :
                  r.disk = disk /\ ~r.saved /\ ~r.raised

\* the run skipped the store block of a source that returned nothing, and
\* the series of that block has rows on file
C10_Witness ==
    /\ last.op = "store_data" /\ last.outcome = "not_called"
    /\ \E i \in 1..Len(StoreSeries) :
         /\ StoreSeries[i] = last.name
         /\ data[StoreSource[i]] = "empty"
    /\ disk[last.name].rows # <<>>

\* ---- derived metrics ---------------------------------------------------------

\* the rows of the frame t that have a value in column (none when the
\* column does not exist)
ObsOf(t, column) ==
    IF column \in t.cols
    THEN { i \in 1..Len(t.rows) : t.rows[i][column] # Null }
    ELSE {}

\* those of them that carry a date
DatedObs(t, column) == { i \in ObsOf(t, column) : t.rows[i]["date"] # Null }

\* i is a most recent dated observation (any observation when none is dated)
IsLatestObs(t, column, i) ==
    IF DatedObs(t, column) = {} THEN i \in ObsOf(t, column)
    ELSE /\ i \in DatedObs(t, column)
         /\ \A k \in DatedObs(t, column) : t.rows[k]["date"] <= t.rows[i]["date"]

\* j is a last dated observation on or before the cutoff or, when there is
\* none, an earliest dated observation (any observation when none is dated)
IsCutoffObs(t, column, j, cutoff) ==
    LET dated == DatedObs(t, column)
        before == { k \in dated : t.rows[k]["date"] <= cutoff }
    IN IF dated = {} THEN j \in ObsOf(t, column)
       ELSE IF before # {}
       THEN j \in before /\ \A k \in before : t.rows[k]["date"] <= t.rows[j]["date"]
       ELSE j \in dated /\ \A k \in dated : t.rows[j]["date"] <= t.rows[k]["date"]

\* C11: for a loaded series with at least two non-null observations of the
\* column, get_change returns the value of a most recent observation minus
\* the value of a last observation dated on or before now - days, or minus
\* the value of an earliest observation when none lies on or before it.
C11_ChangeValue ==
    (last.op = "get_change" /\ Cardinality(ObsOf(last.df, last.column)) >= 2)
        => /\ last.ret # <<>>
           /\ \E i, j \in ObsOf(last.df, last.column) :
                 /\ IsLatestObs(last.df, last.column, i)
                 /\ IsCutoffObs(last.df, last.column, j, last.now - last.days)
                 /\ last.ret[1] = last.df.rows[i][last.column]
                                     - last.df.rows[j][last.column]

\* C12: get_change returns absent exactly when the loaded series has fewer
\* than two non-null observations of the column (none when the table is
\* missing or empty or has no such column).
C12_AbsentOnlyIfShort ==
    last.op = "get_change"
        => (last.ret = <<>> <=> Cardinality(ObsOf(last.df, last.column)) < 2)

\* a change was computed from three dated observations with the window
\* reaching before the first of them: the result is latest - earliest
C12_Witness ==
    /\ last.op = "get_change" /\ last.outcome = "number"
    /\ Cardinality(DatedObs(last.df, last.column)) = 3
    /\ \A i \in DatedObs(last.df, last.column) :
          last.df.rows[i]["date"] > last.now - last.days
    /\ last.ret = <<1>>

\* the entries of a staleness result that name the series
EntriesOf(ret, name) == { i \in 1..Len(ret) : ret[i][1] = name }

\* the dates of the rows of a frame that carry one
DatesOf(t) ==
    IF "date" \in t.cols
    THEN { t.rows[i]["date"] : i \in 1..Len(t.rows) } \ {Null}
    ELSE {}

\* C13: whatever the threshold, every checked series whose loaded table has
\* zero rows or no date column is in the staleness result exactly once, with
\* the label "no data" and the gap -1.
C13_StaleSentinel ==
    last.op = "check_staleness"
        => \A name \in Range(csvs_to_check) :
              (IsEmpty(last.df[name]) \/ "date" \notin last.df[name].cols)
                 => /\ Cardinality(EntriesOf(last.ret, name)) = 1
                    /\ \A i \in EntriesOf(last.ret, name) :
                          last.ret[i] = <<name, Null, -1>>

\* a series that has rows on file could not be read and is reported as
\* "no data", with the largest threshold
C13_Witness ==
    /\ last.op = "check_staleness" /\ last.days = MaxDay
    /\ disk["sofr"].rows # <<>> /\ IsEmpty(last.df["sofr"])
    /\ \E i \in 1..Len(last.ret) : last.ret[i] = <<"sofr", Null, -1>>

\* C14: a checked series with at least one dated row is in the staleness
\* result if and only if today minus its most recent date is greater than
\* threshold_days; it is there once, with that date and that number of days.
C14_StaleThreshold ==
    last.op = "check_staleness"
        => \A name \in Range(csvs_to_check) :
              DatesOf(last.df[name]) # {}
                 => LET gap == last.now - SeqMax(DatesOf(last.df[name]))
                    IN /\ (EntriesOf(last.ret, name) # {} <=> gap > last.days)
                       /\ Cardinality(EntriesOf(last.ret, name)) <= 1
                       /\ \A i \in EntriesOf(last.ret, name) :
                             last.ret[i] = <<name, SeqMax(DatesOf(last.df[name])), gap>>

\* one series is reported with a gap one above the threshold while another,
\* whose most recent date lies in the future, is not reported
C14_Witness ==
    /\ last.op = "check_staleness"
    /\ \E i \in 1..Len(last.ret) :
          last.ret[i][1] = "hibor_daily" /\ last.ret[i][3] = last.days + 1
    /\ DatesOf(last.df["sofr"]) # {}
    /\ SeqMax(DatesOf(last.df["sofr"])) > last.now
    /\ EntriesOf(last.ret, "sofr") = {}

\* ---- the health tracker ------------------------------------------------------
\* the failures recorded for a source since its most recent recorded success
RECURSIVE FailuresSince(_, _)
FailuresSince(h, source) ==
    IF h = <<>> THEN 0
    ELSE LET e == h[Len(h)]
             rest == SubSeq(h, 1, Len(h) - 1)
         IN IF e[1] # source THEN FailuresSince(rest, source)
            ELSE IF e[2] THEN 0
            ELSE 1 + FailuresSince(rest, source)

\* the sources a result was recorded for
Recorded(h) == { h[i][1] : i \in 1..Len(h) }

\* the persisted counter of a source, -1 when the file has no record of it
Persisted(h, source) ==
    IF h.exists /\ source \in DOMAIN h.state
    THEN h.state[source].consecutive_failures ELSE -1

\* C15: after any sequence of record_fetch_result calls of one process the
\* persisted consecutive_failures of a source is not negative and is the
\* number of failures recorded for it since its most recent success, and a
\* call that returns returns that number.
C15_HealthCounter ==
    /\ \A source \in Recorded(data) :
          /\ Persisted(health, source) >= 0
          /\ Persisted(health, source) = FailuresSince(data, source)
    /\ (last.op = "record_fetch_result" /\ ~last.raised)
          => last.ret = FailuresSince(data, last.name)

\* the results recorded for one source, in order
ResultsOf(h, source) ==
    LET Mine(e) == e[1] = source
        mine == SelectSeq(h, Mine)
    IN [i \in 1..Len(mine) |-> mine[i][2]]

\* the results of a source end with three failures and then one success
ResetAfterThree(h, source) ==
    LET r == ResultsOf(h, source)
        n == Len(r)
    IN n >= 4 /\ r[n] /\ ~r[n - 1] /\ ~r[n - 2] /\ ~r[n - 3]

\* the counter the tracker reads for a source: 0 when the state has no record
\* of it
Reads(st, source) ==
    IF source \in DOMAIN st THEN st[source].consecutive_failures ELSE 0

C17_FailureRecorded ==
    [][\A src \in SourceSet :
          (data[src] = "unset" /\ data'[src] = "empty")
             => /\ pc' # Crashed
                /\ Reads(health'.state, src) > Reads(health.state, src)]_vars
\* ---- two runs on one series -------------------------------------------------------
\* the dates of the saved rows that the persisted table no longer holds
LostRows == alerts \ DatesOf(disk["sofr"])

\* two calls overlapped, nothing failed to read or write, both runs are
\* through, and a row that was saved is not in the persisted table
RaceLoss ==
    /\ pc = Interleaved /\ nfaults = 0
    /\ \A p \in Runs : data[p].at = "idle"
    /\ LostRows # {}

\* C18: two runs that both load a series before either saves can lose the
\* row of the run that saves first, while with one run at a time (no two
\* calls overlap) no row that was appended is lost.
C18_StoreRace ==
    pc = Serial => LostRows = {}
\* ---- the chart ------------------------------------------------------------------
\* C19: two builds of the chart from the same persisted tables, read with the
\* same success, emit the same polylines with the same points, whatever the
\* days of the two calls.
C19_ChartDeterminism ==
    [][(last.op = "build_hkd_chart" /\ last'.op = "build_hkd_chart"
          /\ last'.reads = last.reads)
         => last'.ret.polylines = last.ret.polylines]_vars

\* the (date, value) pairs of the series with the label, as the chart built
\* by the last call selected them
ObservationsOf(label) ==
    LET in == chart_inputs(disk, last.reads)
        k == CHOOSE j \in 1..Len(in.defs) : in.defs[j].label = label
    IN in.sel[k]

StepLabels == {"P (HSBC)", "P (DBS)"}

\* C20: in the polyline of a step series, for every two consecutive
\* observations (d1, v1), (d2, v2) the point (x(d2), y(v1)) is immediately
\* followed by (x(d2), y(v2)), and any two successive points have the same
\* x or the same y.
C20_StepStaircase ==
    (last.op = "build_hkd_chart" /\ last.ret.emitted)
       => \A n \in 1..Len(last.ret.polylines) :
            LET line == last.ret.polylines[n]
                sc == chart_scale(chart_inputs(disk, last.reads).sel)
                obs == ObservationsOf(line.label)
            IN line.label \in StepLabels
                 => /\ \A i \in 1..(Len(obs) - 1) :
                         \E j \in 1..(Len(line.points) - 1) :
                            /\ line.points[j] = <<x_pos(sc, obs[i + 1][1]), y_pos(sc, obs[i][2])>>
                            /\ line.points[j + 1] =
                                  <<x_pos(sc, obs[i + 1][1]), y_pos(sc, obs[i + 1][2])>>
                    /\ \A j \in 1..(Len(line.points) - 1) :
                         \/ line.points[j][1] = line.points[j + 1][1]
                         \/ line.points[j][2] = line.points[j + 1][2]

\* a step series with two observations on different days with different
\* values is drawn, and its last value is extended to a later day
C20_Witness ==
    /\ last.op = "build_hkd_chart" /\ last.ret.emitted
    /\ \E n \in 1..Len(last.ret.polylines) :
          LET line == last.ret.polylines[n]
          IN /\ line.label = "P (HSBC)"
             /\ Len(line.points) = 4
             /\ line.points[1][1] # line.points[2][1]
             /\ line.points[2][2] # line.points[3][2]
             /\ line.points[3][1] # line.points[4][1]

\* the dates and the values of all observations the last build selected
SelectedDates ==
    LET sel == chart_inputs(disk, last.reads).sel
    IN UNION { { sel[k][i][1] : i \in 1..Len(sel[k]) } : k \in 1..Len(sel) }

SelectedVals ==
    LET sel == chart_inputs(disk, last.reads).sel
    IN UNION { { sel[k][i][2] : i \in 1..Len(sel[k]) } : k \in 1..Len(sel) }

\* the points of all polylines of the last build
EmittedPoints ==
    UNION { Range(last.ret.polylines[n].points) : n \in 1..Len(last.ret.polylines) }

RECURSIVE LabelsWithPoints(_, _)
LabelsWithPoints(defs, sel) ==
    IF defs = <<>> THEN <<>>
    ELSE LabelsWithPoints(SubSeq(defs, 1, Len(defs) - 1), SubSeq(sel, 1, Len(sel) - 1))
           \o (IF sel[Len(sel)] # <<>> THEN <<defs[Len(defs)].label>> ELSE <<>>)

\* C22: the legend of an emitted chart is the list of the series definitions
\* that have at least one point, in the order of the definitions, and no
\* label occurs in it twice.
C22_LegendOrder ==
    (last.op = "build_hkd_chart" /\ last.ret.emitted)
      => LET in == chart_inputs(disk, last.reads)
             legend == legend_items(last.ret)
         IN /\ legend = LabelsWithPoints(in.defs, in.sel)
            /\ \A i, j \in 1..Len(legend) : i # j => legend[i] # legend[j]

\* a chart with two series is emitted; a defined series without a value has
\* no legend entry
C22_Witness ==
    /\ last.op = "build_hkd_chart" /\ last.ret.emitted
    /\ legend_items(last.ret) = <<"HIBOR O/N", "P (HSBC)">>

\* ---- the derived views and the store ---------------------------------------------
DerivedViews == {"generate_report", "build_hkd_chart", "get_change", "check_staleness"}

\* C23: building the chart, computing a change, checking staleness and
\* generating the report leave every persisted series table and the health
\* state as they were.
C23_ViewsArePure ==
    [][last'.op \in DerivedViews => (disk' = disk /\ health' = health)]_vars

\* a report with an emitted chart was generated from a store whose prime-rate
\* table holds a row without a value, with a health file on disk
C23_Witness ==
    /\ last.op = "generate_report" /\ last.ret.hkd_chart.emitted
    /\ health.exists
    /\ \E i \in 1..Len(disk["prime_rates"].rows) :
          disk["prime_rates"].rows[i]["HSBC"] = Null

\* ---- the batch filter of append_rows -------------------------------------------

\* the number of positions of the sequence s that hold x
CountOf(s, x) == Cardinality({ i \in 1..Len(s) : s[i] = x })

\* the sequences a and b hold the same rows the same number of times
SameRows(a, b) ==
    /\ Len(a) = Len(b)
    /\ \A i \in 1..Len(a) : CountOf(a, a[i]) = CountOf(b, a[i])

\* C24: append_rows filters the incoming rows against the dates persisted
\* before the call only: after a call whose write succeeds the table holds
\* the rows persisted before plus every incoming row whose date was not
\* persisted (rows of the batch that share such a date all go in), and a
\* batch with no such row leaves the table as it was.
C24_BatchFilter ==
    \A rows \in DateBatches, readOk \in BOOLEAN :
        LET t == disk["sofr"]
            Fresh(r) == KeyOf(r, "date") \notin StoredKeys(t, "date")
            kept == SelectSeq(rows, Fresh)
            expected == concat([cols |-> t.cols, rows |-> t.rows], kept).rows
        IN \A r \in append_rows(disk, "sofr", rows, readOk, TRUE) :
               IF kept = <<>> THEN r.disk = disk
               ELSE SameRows(r.disk["sofr"].rows, expected)

\* a batch was inserted and the table now holds two rows of one date
C24_BatchDuplicate ==
    /\ last.op = "append_rows" /\ last.outcome = "inserted"
    /\ \E k \in StoredKeys(disk["sofr"], "date") :
           Cardinality(RowsWithKey(disk["sofr"], "date", k)) = 2

\* ---- fetch_all: one health record per source ----------------------------------

\* C25: every try / except block of fetch_all makes exactly one
\* record_fetch_result call for its source, a success or a failure, that
\* call writes the health file once, and the run goes on to the block of the
\* next source (after the ninth, to the alert query).
C25_OneRecordPerSource ==
    [][ pc.phase = "fetch"
        => /\ last'.op = "record_fetch_result" /\ last'.name = Sources[pc.i]
           /\ Len(last'.calls) = 1
           /\ last'.saves = 1
           /\ pc' = IF pc.i < Len(Sources) THEN [phase |-> "fetch", i |-> pc.i + 1]
                    ELSE [phase |-> "alerts", i |-> 0] ]_vars

\* a fetch was recorded as a success and as a failure in one block
C25_BothRecorded ==
    /\ last.op = "record_fetch_result" /\ pc.phase # "crashed"
    /\ "calls" \in DOMAIN last /\ last.calls = <<TRUE, FALSE>>

\* ---- report.py: the downsampling of a continuous series ------------------------

\* the longest series the downsampling is applied to
MaxPoints == 1650

\* the (date, value) pairs of a continuous series with n observations, one
\* per day
PointSeries(n) == [i \in 1..n |-> <<i, 1>>]

InitDownsample ==
    /\ disk = [s \in Series |-> NoFile]
    /\ health = NoHealthFile
    /\ last = NoCall
    /\ pc = Idle
    /\ data \in { PointSeries(n) : n \in 0..MaxPoints }
    /\ alerts = {}
    /\ stale = <<>>
    /\ nfaults = 0

\* the else branch of the plot loop for one series: the rows whose points
\* are emitted
Downsample ==
    /\ last = NoCall
    /\ last' = [op |-> "downsample", name |-> "hibor_daily", key |-> Null,
                outcome |-> "drawn", raised |-> FALSE, df |-> EmptyFrame,
                ret |-> Thinned(data)]
    /\ UNCHANGED <<disk, health, pc, data, alerts, stale, nfaults>>

NextDownsample == Downsample

SpecDownsample == InitDownsample /\ [][NextDownsample]_vars

\* C26: a continuous series of n > 500 points is drawn from the points at
\* positions 1, 1 + k, 1 + 2k, ... with k = n // 400, in their order; a
\* series of at most 500 points is drawn in full; fewer than 800 points are
\* drawn whatever n is.
C26_DownsampleBound ==
    last.op = "downsample"
        => LET n == Len(data)
               k == IF n > 500 THEN n \div 400 ELSE 1
               picked == { i \in 1..n : (i - 1) % k = 0 }
           IN /\ Len(last.ret) = Cardinality(picked)
              /\ \A j \in 1..Len(last.ret) : last.ret[j] = data[1 + (j - 1) * k]
              /\ Len(last.ret) < 800

\* a series of at least 800 points was drawn from every second point or
\* sparser
C26_Witness ==
    /\ last.op = "downsample" /\ Len(data) >= 800
    /\ Len(last.ret) < Len(data) /\ last.ret[2] # data[2]

\* ---- two processes recording results ------------------------------------------

\* the sources whose persisted counter is not the number of failures saved
\* for them since their most recent saved success
WrongCounters ==
    { source \in Recorded(stale) :
        Persisted(health, source) # FailuresSince(stale, source) }

\* two calls overlapped, nothing failed to read or write, both processes are
\* through, and the counter of a source is not its number of consecutive
\* failures
HealthRaceLoss ==
    /\ pc = Interleaved /\ nfaults = 0
    /\ \A p \in Runs : data[p].at = "idle"
    /\ WrongCounters # {}

\* C27: two record_fetch_result calls that both load the state map before
\* either saves can lose the update saved first, while with one process at a
\* time (no two calls overlap) the persisted counter of every source is the
\* number of failures saved for it since its most recent saved success.
C27_HealthRace ==
    pc = Serial => WrongCounters = {}

\* ---- the two paths of _upsert_esaver --------------------------------------------

\* the columns in which the record esaver carries a value
ValueCols(esaver) == { k \in DOMAIN esaver : esaver[k] # Null }

\* C28: an _upsert_esaver call that takes the update path (the key of the
\* record is in the table) leaves the column set and the number of rows of
\* the table as they were, so a value of the record in a column the table
\* does not have is not stored; a call that takes the insert path leaves a
\* table that has every column of the record, with the record's values in
\* one of its rows.
C28_UpsertPaths ==
    \A esaver \in PromoRows, readOk \in BOOLEAN :
        \A r \in upsert_esaver(disk, esaver, readOk, TRUE) :
            LET t == disk["esaver_history"]
                u == r.disk["esaver_history"]
            IN /\ r.outcome \in {"updated", "inserted"}
               /\ r.outcome = "updated"
                  => /\ esaver["promo_month"] \in StoredKeys(t, "promo_month")
                     /\ u.cols = t.cols
                     /\ Len(u.rows) = Len(t.rows)
                     /\ \A i \in 1..Len(u.rows) : DOMAIN u.rows[i] = t.cols
               /\ r.outcome = "inserted"
                  => /\ DOMAIN esaver \subseteq u.cols
                     /\ \E i \in 1..Len(u.rows) :
                           \A c \in DOMAIN esaver : u.rows[i][c] = esaver[c]

\* a record was updated in a table that lacks a column in which callers
\* pass values for the same key
C28_Witness ==
    /\ last.op = "upsert_esaver" /\ last.outcome = "updated"
    /\ \E esaver \in PromoRows :
          /\ esaver["promo_month"] = last.key
          /\ ValueCols(esaver) \ disk["esaver_history"].cols # {}

\* ---- the order of the steps of a run --------------------------------------------

\* C29: a run does its steps in the order of main: the nine fetch blocks with
\* their health records, then the alert query, then the staleness query, then
\* the store blocks, then the report step.  The persisted tables do not
\* change before the store step, the alert query reads the health state that
\* holds this run's records and returns every source whose counter there is
\* 3 or more, and what the two queries returned is not changed by the store
\* step.
C29_RunOrder ==
    [][ /\ pc.phase = "fetch"
           => /\ pc'.phase \in {"fetch", "alerts", "crashed"}
              /\ pc'.phase = "alerts" => \A src \in SourceSet : data'[src] # "unset"
              /\ disk' = disk /\ alerts' = alerts /\ stale' = stale
        /\ pc.phase = "alerts"
           => /\ pc'.phase = "stale"
              /\ last'.op = "get_alerts"
              /\ last'.df \in {health.state, EmptyMap}
              /\ alerts' = { src \in DOMAIN last'.df :
                               last'.df[src].consecutive_failures >= 3 }
              /\ disk' = disk /\ health' = health /\ stale' = stale
        /\ pc.phase = "stale"
           => /\ pc'.phase = "store"
              /\ disk' = disk /\ health' = health /\ alerts' = alerts
        /\ pc.phase = "store"
           => /\ pc'.phase \in {"store", "report", "crashed"}
              /\ health' = health /\ alerts' = alerts /\ stale' = stale
        /\ pc.phase = "report"
           => /\ pc'.phase = "done"
              /\ disk' = disk /\ health' = health /\ alerts' = alerts
              /\ stale' = stale
        /\ pc.phase \notin {"done", "crashed"} ]_vars

\* a run without any I/O fault is through: hibor failed for the third time
\* in a row in this run and is among the alerts of this run
C29_Witness ==
    /\ pc.phase = "done" /\ nfaults = 0
    /\ data["hibor"] = "empty"
    /\ Persisted(health, "hibor") = 3
    /\ "hibor" \in alerts
    /\ Today \in DatesOf(disk["sofr"])

\* a run without any I/O fault is through: sofr was reported as having no
\* data although the run has stored today's row for it
C29_StaleBeforeStore ==
    /\ pc.phase = "done" /\ nfaults = 0
    /\ \E i \in 1..Len(stale) : stale[i][1] = "sofr"
    /\ Today \in DatesOf(disk["sofr"])

\* ---- the frame of record_fetch_result -------------------------------------------

\* C30: a step changes the persisted record of a source only when it is a
\* record_fetch_result call for that source: the record of every other
\* source that the health file held before the step is still there after
\* it, with the same counter, last_success and last_failure, also when the
\* call could not read the file.
C30_HealthFrame ==
    [][ \A x \in DOMAIN health.state :
           \/ last'.op = "record_fetch_result" /\ last'.name = x
           \/ /\ x \in DOMAIN health'.state
              /\ health'.state[x] = health.state[x] ]_vars

\* a call for one source was saved while the file holds the record of
\* another source
C30_OtherKept ==
    /\ last.op = "record_fetch_result" /\ ~last.raised
    /\ DOMAIN health.state \ {last.name} # {}

====
